---- MODULE Spec2Model ----
(***************************************************************************)
(* A model of the bookify / quickmeet client:                              *)
(*   - the time helpers (populateTimeOptions, formatTime, ...),            *)
(*   - the Api client (response interceptor, handleError, public methods), *)
(*   - the BookRoomView component (availability requests, booking).        *)
(* Each part has its own specification (SpecTime, SpecApi, Spec); the      *)
(* variables of the other parts stay at their initial value.               *)
(***************************************************************************)
EXTENDS Integers, Sequences, FiniteSets, TLC

VARIABLES
    \* ---- time helpers ----
    now,            \* the instant new Date() returns: [h |-> 0..23, m |-> 0..59]
    timeOptions,    \* what populateTimeOptions() returned
    tpc,            \* "start" | "done"
    tzOffset,       \* what new Date().getTimezoneOffset() returns: minutes, UTC minus local
    targ,           \* the helper a caller evaluates and the arguments it passes
    tres,           \* what that helper returned ([kind |-> "none"] before the call)
    \* ---- Api client ----
    method,         \* the public method a caller invoked ("none" before the call)
    apc,            \* where that call stands: "idle" | "client" | "refreshDirect" | "msg" | "done"
    stage,          \* which request of the method is running: "main" | "url" | "callback" | "none"
    stack,          \* requests sent through this.client: stack[1] is the method's request,
                    \* stack[k+1] the logout request the interceptor of stack[k] awaits
    aborted,        \* the caller's AbortController has been aborted
    events,         \* what the interceptor did for the method's request, in order
    thrown,         \* the error last handed to handleError (NoError before)
    result,         \* what the public method resolved with ([kind |-> "pending"] before)
    \* ---- BookRoomView ----
    view,                   \* "mounted" | "left" (the parent or the router moved away)
    loading,                \* useState(true)
    initialPageLoad,        \* useState(false)
    roomLoading,            \* useState(false)
    bookClickLoading,       \* useState(false)
    formData,               \* useState<FormData>
    availableRoomOptions,   \* useState<RoomsDropdownOption[]>: the rooms' emails, in order
    abortControllerRef,     \* useRef: 0 for null, else the id of the request whose controller it holds
    reqs,                   \* the setAvailableRooms calls awaiting api.getAvailableRooms, by id
    bookPc,                 \* "idle" | "creating" (onBookClick awaits api.createEvent)
    bookFd,                 \* the formData the running onBookClick closed over
    effects,                \* what the last step called: createEvent, renderError, onRoomBooked, ...
    resolved,               \* the availability request the last step resolved, if any
    roomQuery               \* the startTime, duration and seats of the call whose answer
                            \* set formData.room (NoQuery when none did)

timeVars == <<now, timeOptions, tpc, tzOffset, targ, tres>>
apiVars == <<method, apc, stage, stack, aborted, events, thrown, result>>
viewVars == <<view, loading, initialPageLoad, roomLoading, bookClickLoading, formData,
              availableRoomOptions, abortControllerRef, reqs, bookPc, bookFd, effects, resolved,
              roomQuery>>
vars == <<now, timeOptions, tpc, tzOffset, targ, tres, method, apc, stage, stack, aborted, events, thrown, result,
          view, loading, initialPageLoad, roomLoading, bookClickLoading, formData,
          availableRoomOptions, abortControllerRef, reqs, bookPc, bookFd, effects, resolved,
          roomQuery>>

(***************************************************************************)
(* Time helpers                                                            *)
(***************************************************************************)

\* A JavaScript string is a sequence of one-character strings.
DigitChar(d) == CASE d = 0 -> "0" [] d = 1 -> "1" [] d = 2 -> "2" [] d = 3 -> "3"
                  [] d = 4 -> "4" [] d = 5 -> "5" [] d = 6 -> "6" [] d = 7 -> "7"
                  [] d = 8 -> "8" [] d = 9 -> "9"

\* String(n) / number-to-string concatenation, for 0 <= n <= 99.
NumToString(n) == IF n < 10 THEN <<DigitChar(n)>>
                  ELSE <<DigitChar(n \div 10), DigitChar(n % 10)>>

\* toMinutesSinceMidnight weighting an hour as 59 minutes.
toMinutesSinceMidnight59(hours, minutes) == hours * 59 + minutes

toMinutesSinceMidnight(hours, minutes) == hours * 60 + minutes

formatTimeNoPad(hours, minutes) ==
    LET ampm == IF hours >= 12 THEN <<"P", "M">> ELSE <<"A", "M">>
        h1 == hours % 12
        h2 == IF h1 # 0 THEN h1 ELSE 12
    IN  NumToString(h2) \o <<":">> \o NumToString(minutes) \o <<" ">> \o ampm

formatTime(hours, minutes) ==
    LET ampm == IF hours >= 12 THEN <<"P", "M">> ELSE <<"A", "M">>
        h1 == hours % 12
        h2 == IF h1 # 0 THEN h1 ELSE 12
        _minutes == IF minutes < 10 THEN <<"0">> \o NumToString(minutes)
                    ELSE NumToString(minutes)
    IN  NumToString(h2) \o <<":">> \o _minutes \o <<" ">> \o ampm

\* The loop indices of populateTimeOptions, in the order the loop visits them.
LoopIndices == [k \in 1..(24 * 4) |-> k - 1]

SlotHours(i) == i \div 4
SlotMinutes(i) == (i % 4) * 15

\* The loop of populateTimeOptions with a strict comparison (it drops the slot
\* equal to the threshold).
TimeLoopStrict(currentTimeInMinutes) ==
    LET kept == SelectSeq(LoopIndices, LAMBDA i :
                    toMinutesSinceMidnight(SlotHours(i), SlotMinutes(i)) > currentTimeInMinutes)
    IN  [j \in 1..Len(kept) |-> formatTime(SlotHours(kept[j]), SlotMinutes(kept[j]))]

\* The loop of populateTimeOptions: for i = 0..95 in order, the formatted slot is
\* pushed when optionTimeInMinutes >= currentTimeInMinutes.
TimeLoop(currentTimeInMinutes) ==
    LET kept == SelectSeq(LoopIndices, LAMBDA i :
                    toMinutesSinceMidnight(SlotHours(i), SlotMinutes(i)) >= currentTimeInMinutes)
    IN  [j \in 1..Len(kept) |-> formatTime(SlotHours(kept[j]), SlotMinutes(kept[j]))]

\* populateTimeOptions() when new Date() is t.
populateTimeOptions(t) ==
    LET m0 == (t.m \div 15) * 15
        rolled == m0 = 60
        currentMinutes == IF rolled THEN 0 ELSE m0
        currentHours == IF rolled THEN t.h + 1 ELSE t.h
        currentTimeInMinutes == toMinutesSinceMidnight(currentHours, currentMinutes)
    IN  TimeLoop(currentTimeInMinutes)

\* ---- what a helper returns ----
NoResult == [kind |-> "none", num |-> 0, str |-> <<>>]
NumberResult(n) == [kind |-> "number", num |-> n, str |-> <<>>]
StringResult(s) == [kind |-> "string", num |-> 0, str |-> s]
\* A TypeError: the non-null assertion on a match that is null.
Throws == [kind |-> "throws", num |-> 0, str |-> <<>>]

\* ---- string primitives ----
Abs(x) == IF x < 0 THEN -x ELSE x

\* s.padStart(2, '0').
PadStart2(s) == IF Len(s) < 2 THEN <<"0">> \o s ELSE s

IsDigit(c) == c \in {"0", "1", "2", "3", "4", "5", "6", "7", "8", "9"}
DigitVal(c) == CASE c = "0" -> 0 [] c = "1" -> 1 [] c = "2" -> 2 [] c = "3" -> 3
                 [] c = "4" -> 4 [] c = "5" -> 5 [] c = "6" -> 6 [] c = "7" -> 7
                 [] c = "8" -> 8 [] c = "9" -> 9

\* parseInt of one or two digits.
parseInt(s) == IF Len(s) = 1 THEN DigitVal(s[1]) ELSE DigitVal(s[1]) * 10 + DigitVal(s[2])

\* The index of the first c in s (0: none), and s.split(c) taken at it.
IndexOf(s, c) == IF \E i \in 1..Len(s) : s[i] = c
                 THEN CHOOSE i \in 1..Len(s) : s[i] = c /\ \A j \in 1..(i - 1) : s[j] # c
                 ELSE 0
SplitHead(s, c) == IF IndexOf(s, c) = 0 THEN s ELSE SubSeq(s, 1, IndexOf(s, c) - 1)
SplitTail(s, c) == IF IndexOf(s, c) = 0 THEN <<>> ELSE SubSeq(s, IndexOf(s, c) + 1, Len(s))

\* getTimezoneOffset() without padStart.
getTimezoneOffsetNoPad(offsetInMinutes) ==
    LET sign == IF offsetInMinutes <= 0 THEN "+" ELSE "-"
        offsetInHours == Abs(offsetInMinutes) \div 60
        offsetInRemainingMinutes == Abs(offsetInMinutes) % 60
    IN  <<sign>> \o NumToString(offsetInHours) \o <<":">> \o NumToString(offsetInRemainingMinutes)

\* getTimezoneOffset() when new Date().getTimezoneOffset() is offsetInMinutes.
getTimezoneOffset(offsetInMinutes) ==
    LET sign == IF offsetInMinutes <= 0 THEN "+" ELSE "-"
        offsetInHours == Abs(offsetInMinutes) \div 60
        offsetInRemainingMinutes == Abs(offsetInMinutes) % 60
    IN  <<sign>> \o PadStart2(NumToString(offsetInHours)) \o <<":">>
               \o PadStart2(NumToString(offsetInRemainingMinutes))

\* timeZoneOffset.match(/([+-])(\d{2}):(\d{2})/): the groups of the first match,
\* <<>> for null.
MatchOffset(s) ==
    LET hits == {i \in 1..(Len(s) - 5) :
                    /\ s[i] \in {"+", "-"}
                    /\ IsDigit(s[i + 1]) /\ IsDigit(s[i + 2])
                    /\ s[i + 3] = ":"
                    /\ IsDigit(s[i + 4]) /\ IsDigit(s[i + 5])}
    IN  IF hits = {} THEN <<>>
        ELSE LET i == CHOOSE x \in hits : \A y \in hits : x <= y
             IN  <<<<s[i]>>, SubSeq(s, i + 1, i + 2), SubSeq(s, i + 4, i + 5)>>

\* The offset convertToRFC3339 re-parses from the string (lines 66-68).
ParsedOffsetInMinutes(groups) ==
    (parseInt(groups[2]) * 60 + parseInt(groups[3])) * (IF groups[1] = <<"+">> THEN 1 ELSE -1)

\* ---- Date: an instant is its number of minutes since 2024-01-01T00:00Z; the
\* local fields of an instant d are those of d - offset (getTimezoneOffset is
\* UTC minus local), and the model stays in January 2024. ----

\* "2024-01-DD" -> DD.
ParseDay(dateString) == parseInt(SubSeq(dateString, 9, 10))

\* "H:MM AM" / "HH:MM PM" -> minutes since midnight.
ParseClock(timeString) ==
    LET c == IndexOf(timeString, ":")
        sp == IndexOf(timeString, " ")
        hour12 == parseInt(SubSeq(timeString, 1, c - 1))
        mins == parseInt(SubSeq(timeString, c + 1, sp - 1))
        pm == timeString[sp + 1] = "P"
    IN  ((hour12 % 12) + (IF pm THEN 12 ELSE 0)) * 60 + mins

\* new Date(`${dateString} ${timeString}`): a string with no zone is local time.
NewDateLocal(dateString, timeString, offset) ==
    (ParseDay(dateString) - 1) * 1440 + ParseClock(timeString) + offset

\* date.getMinutes() and date.setMinutes(v), on the local fields.
DateGetMinutes(d, offset) == (d - offset) % 60
DateSetMinutes(d, offset, v) == d - DateGetMinutes(d, offset) + v

TwoDigits(n) == <<DigitChar(n \div 10), DigitChar(n % 10)>>

\* date.toISOString(): the UTC fields, "2024-01-DDTHH:MM:00.000Z".
toISOString(d) ==
    LET day == (d \div 1440) + 1
        mins == d % 1440
    IN  <<"2", "0", "2", "4", "-", "0", "1", "-">> \o TwoDigits(day) \o <<"T">>
        \o TwoDigits(mins \div 60) \o <<":">> \o TwoDigits(mins % 60)
        \o <<":", "0", "0", ".", "0", "0", "0", "Z">>

\* convertToRFC3339 without the setMinutes of line 69.
convertToRFC3339NoShift(dateString, timeString, offset) ==
    LET timeZoneOffset == getTimezoneOffset(offset)
        date == NewDateLocal(dateString, timeString, offset)
        groups == MatchOffset(timeZoneOffset)
    IN  IF Len(groups) = 0 THEN Throws
        ELSE LET isoString == toISOString(date)
                 isoDate == SplitHead(isoString, "T")
                 isoTime == SplitTail(isoString, "T")
             IN  StringResult(isoDate \o <<"T">> \o SplitHead(isoTime, ".") \o timeZoneOffset)

\* convertToRFC3339(dateString, timeString) when the runtime offset is offset.
convertToRFC3339(dateString, timeString, offset) ==
    LET timeZoneOffset == getTimezoneOffset(offset)
        date == NewDateLocal(dateString, timeString, offset)
        groups == MatchOffset(timeZoneOffset)
    IN  IF Len(groups) = 0 THEN Throws
        ELSE LET offsetInMinutes == ParsedOffsetInMinutes(groups)
                 shifted == DateSetMinutes(date, offset, DateGetMinutes(date, offset) + offsetInMinutes)
                 isoString == toISOString(shifted)
                 isoDate == SplitHead(isoString, "T")
                 isoTime == SplitTail(isoString, "T")
             IN  StringResult(isoDate \o <<"T">> \o SplitHead(isoTime, ".") \o timeZoneOffset)

\* The local calendar day (of January 2024) on which the view is used.
LocalDay == 15

\* Date.now() when the local clock shows t on LocalDay and the runtime offset is
\* offset.
DateNow(t, offset) == (LocalDay - 1) * 1440 + toMinutesSinceMidnight(t.h, t.m) + offset

\* The start timestamp setAvailableRooms and onBookClick send: the date is the
\* first part of new Date(Date.now()).toISOString(), the time the selected option.
formattedStartTime(t, offset, startTime) ==
    LET date == SplitHead(toISOString(DateNow(t, offset)), "T")
    IN  convertToRFC3339(date, startTime, offset)

(***************************************************************************)
(* Api client                                                              *)
(***************************************************************************)

\* Nested logout requests the model follows (each logout answered 401 whose
\* refresh fails issues another logout).
MaxLogoutDepth == 2

\* ---- values ----

\* An absent response body / an absent error.
NoBody == [status |-> "none", message |-> "none", data |-> "none"]
NoError == [code |-> "none", http |-> 0, body |-> NoBody]

\* The envelopes the backend answers with: {status, message, data}; "ignore" is
\* never sent by the backend.
OkBodies == {[status |-> "success", message |-> "ok", data |-> "payload"],
             [status |-> "success", message |-> "ok", data |-> "null"]}
ErrBody == [status |-> "error", message |-> "server says no", data |-> "null"]

\* How a request sent to the backend can end: a 2xx response, an HTTP error with
\* or without a body, a network failure, a timeout.
Outcomes ==
    {[code |-> "OK", http |-> 200, body |-> b] : b \in OkBodies}
    \cup {[code |-> "ERR_BAD_REQUEST", http |-> 401, body |-> b] : b \in {NoBody, ErrBody}}
    \cup {[code |-> "ERR_BAD_RESPONSE", http |-> 500, body |-> b] : b \in {NoBody, ErrBody}}
    \cup {[code |-> "ERR_NETWORK", http |-> 0, body |-> NoBody],
          [code |-> "ECONNABORTED", http |-> 0, body |-> NoBody]}

\* What axios rejects with when the request's AbortSignal is aborted.
CanceledError == [code |-> "ERR_CANCELED", http |-> 0, body |-> NoBody]

\* Every error object handleError can be handed (a cancelled error carrying a
\* response body included).
ErrorInputs ==
    [code : {"ERR_CANCELED", "ERR_BAD_REQUEST", "ERR_BAD_RESPONSE", "ERR_NETWORK",
             "ECONNABORTED", "none"},
     http : {0, 401, 500},
     body : {NoBody, ErrBody}]

\* if (res): the error carries a response body.
HasBody(b) == b.status # "none"

Truthy(v) == v \notin {"null", "undefined", "", "none"}

\* What a public method resolved with.
Pending == [kind |-> "pending", env |-> NoBody]
Thrown == [kind |-> "thrown", env |-> NoBody]
Envelope(e) == [kind |-> "envelope", env |-> e]
Plain(k) == [kind |-> k, env |-> NoBody]      \* k: "true" "false" "undefined" "null" "token"

DomainMethods == {"getAvailableRooms", "getRooms", "createEvent", "updateEvent",
                  "deleteEvent", "getMaxSeatCount", "getFloors"}
SingleRequestMethods == DomainMethods \cup {"getOAuthUrl", "handleOAuthCallback",
                                            "validateSession", "logout"}
Methods == SingleRequestMethods \cup {"refreshToken", "loginChrome", "login",
                                      "handleChromeOauthFlow", "handleError"}

\* ---- createReply / handleError ----

createReply(status, message, data) == [status |-> status, message |-> message, data |-> data]

\* handleError with the two tests in the other order: the body wins over the code.
handleErrorBodyFirst(error) ==
    LET res == error.body
    IN  IF HasBody(res) THEN res
        ELSE IF error.code = "ERR_CANCELED"
             THEN createReply("ignore", "Pending request aborted", "null")
             ELSE createReply("error", "Something went wrong", "null")

handleError(error) ==
    IF error.code = "ERR_CANCELED"
    THEN createReply("ignore", "Pending request aborted", "null")
    ELSE LET res == error.body
         IN  IF HasBody(res) THEN res
             ELSE createReply("error", "Something went wrong", "null")

\* ---- a request sent through this.client ----

NewRequest(kind) ==
    [kind |-> kind, phase |-> "xhr", retry |-> FALSE, nRefresh |-> 0, nReplay |-> 0,
     err |-> NoError, rej |-> NoError, data |-> NoBody]

Settled(r) == r.phase \in {"fulfilled", "rejected"}

\* The interceptor's error handler without the per-request flag: every 401 is
\* answered by a refresh.
InterceptorRejectedNoFlag(r, error) ==
    IF error.http = 401
    THEN [r EXCEPT !.err = error, !.phase = "refresh", !.nRefresh = @ + 1]
    ELSE [r EXCEPT !.phase = "rejected", !.rej = error]

\* The response interceptor's error handler up to its first await: a 401 on a
\* request not yet retried sets _retry and awaits refreshToken(); everything else
\* is rejected unchanged.
InterceptorRejected(r, error) ==
    IF error.http = 401 /\ ~r.retry
    THEN [r EXCEPT !.retry = TRUE, !.err = error, !.phase = "refresh", !.nRefresh = @ + 1]
    ELSE [r EXCEPT !.phase = "rejected", !.rej = error]

\* The request's XHR ends with outcome o (the success handler is the identity).
XhrSettled(r, o) ==
    IF o.code = "OK" THEN [r EXCEPT !.phase = "fulfilled", !.data = o.body]
    ELSE InterceptorRejected(r, o)

\* The interceptor after refreshToken() returned, with the test on the token
\* inverted: it logs out when there is a token and replays when there is none.
InterceptorAfterRefreshInverted(r, renewedToken, signalAborted) ==
    IF renewedToken THEN [r EXCEPT !.phase = "logout"]
    ELSE IF signalAborted
         THEN InterceptorRejected([r EXCEPT !.nReplay = @ + 1], CanceledError)
         ELSE [r EXCEPT !.phase = "replay", !.nReplay = @ + 1]

\* The interceptor after refreshToken() returned: without a token it awaits
\* logout(); with one it replays the original request, which axios cancels at once
\* when the request's signal is already aborted.
InterceptorAfterRefresh(r, renewedToken, signalAborted) ==
    IF ~renewedToken THEN [r EXCEPT !.phase = "logout"]
    ELSE IF signalAborted
         THEN InterceptorRejected([r EXCEPT !.nReplay = @ + 1], CanceledError)
         ELSE [r EXCEPT !.phase = "replay", !.nReplay = @ + 1]

\* The interceptor after logout() returned, rejecting with the logout's outcome
\* in place of the original error.
InterceptorAfterLogoutDropsError(r) == [r EXCEPT !.phase = "rejected", !.rej = NoError]

\* The interceptor after logout() returned: it navigates to sign-in and rejects
\* with the original error.
InterceptorAfterLogout(r) == [r EXCEPT !.phase = "rejected", !.rej = r.err]

\* The events the interceptor of the request at depth d logs.
Ev(d, e) == [d |-> d, e |-> e]

\* The top request of st has settled: every logout() awaited below it returns, and
\* the interceptor that awaited it navigates and rejects. Returns the stack left
\* (its requests from the first unsettled one down) and the events logged.
RECURSIVE Unwind(_, _)
Unwind(st, evs) ==
    LET n == Len(st)
    IN  IF n >= 2 /\ Settled(st[n])
        THEN Unwind([SubSeq(st, 1, n - 1) EXCEPT ![n - 1] = InterceptorAfterLogout(st[n - 1])],
                    evs \o <<Ev(n - 1, "navigate"), Ev(n - 1, "reject")>>)
        ELSE [stack |-> st, events |-> evs]

\* ---- the public methods' continuations ----

\* The methods' bodies without their try/catch: a rejection reaches the caller.
SingleResultNoCatch(m, r) ==
    IF r.phase = "rejected" THEN Thrown
    ELSE IF m \in DomainMethods THEN Envelope(r.data)
    ELSE IF m = "getOAuthUrl" THEN Envelope(createReply("success", "", r.data.data))
    ELSE IF m = "handleOAuthCallback" THEN Envelope(createReply("success", "undefined", "undefined"))
    ELSE Plain("true")

\* What a method whose only request settled as r resolves with.
SingleResult(m, r) ==
    IF m \in DomainMethods
    THEN IF r.phase = "fulfilled" THEN Envelope(r.data) ELSE Envelope(handleError(r.rej))
    ELSE IF m = "getOAuthUrl"
    THEN IF r.phase = "fulfilled" THEN Envelope(createReply("success", "", r.data.data))
         ELSE Envelope(handleError(r.rej))
    ELSE IF m = "handleOAuthCallback"
    THEN IF r.phase = "fulfilled" THEN Envelope(createReply("success", "undefined", "undefined"))
         ELSE Envelope(handleError(r.rej))
    ELSE \* validateSession, logout
         IF r.phase = "fulfilled" THEN Plain("true") ELSE Plain("false")

\* handleChromeOauthFlow after handleOAuthCallback returned res.
ChromeFlowResult(res) ==
    IF res.status = "error"
    THEN createReply("error", IF Truthy(res.message) THEN res.message ELSE "Something went wrong",
                     "undefined")
    ELSE createReply("success", "OAuth flow completed", "undefined")

ApiIdle ==
    /\ method = "none"
    /\ apc = "idle"
    /\ stage = "none"
    /\ stack = <<>>
    /\ aborted = FALSE
    /\ events = <<>>
    /\ thrown = NoError
    /\ result = Pending

(***************************************************************************)
(* BookRoomView                                                            *)
(***************************************************************************)

\* Requests that were aborted between two XHRs (while the interceptor awaits
\* refreshToken or logout) and are still pending.
MaxZombies == 1

\* formData.room before a room is set (undefined).
NoRoom == "undefined"

\* usePreferences(): the stored duration and seats.
preferences == [duration |-> 30, seats |-> 1]

\* What the dropdowns offer (populateDurationOptions, populateRoomCapacity), and
\* what the user may type as a title.
DurationChoices == {30, 60}
SeatChoices == {1, 2}
TitleChoices == {"", "standup"}

\* The room lists GET /api/rooms/available answers with (emails, in order).
RoomLists == {<<>>, <<"room-a">>, <<"room-b", "room-a">>}

\* How the XHR of an availability request can end.
AvailOutcomes ==
    {[code |-> "OK", http |-> 200,
      body |-> [status |-> "success", message |-> "ok", data |-> rooms]] : rooms \in RoomLists}
    \cup {[code |-> "ERR_BAD_REQUEST", http |-> 401, body |-> ErrBody],
          [code |-> "ERR_NETWORK", http |-> 0, body |-> NoBody]}

\* useState<FormData>({startTime: '', duration, seats}).
InitialFormData ==
    [startTime |-> <<>>, duration |-> preferences.duration, seats |-> preferences.seats,
     room |-> NoRoom, title |-> ""]

NoResolution == [kind |-> "none", status |-> "none", aborted |-> FALSE, cont |-> "none",
                 data |-> <<>>]

\* The formData a closure of setAvailableRooms holds. Its room is never read:
\* line 416 replaces it.
Closure(fd) == [fd EXCEPT !.room = NoRoom]

\* A setAvailableRooms call awaiting api.getAvailableRooms: the request, the
\* formData its closure holds, whether its controller was aborted, and what runs
\* after it ("renderError" when onBookClick awaits it).
NewAvailRequest(fd, cont) ==
    [kind |-> "avail", phase |-> "xhr", retry |-> FALSE, nRefresh |-> 0, nReplay |-> 0,
     err |-> NoError, rej |-> NoError, data |-> NoBody,
     aborted |-> FALSE, fd |-> Closure(fd), cont |-> cont]

\* controller.abort() leaving the request untouched.
AbortControllerNoOp(r) == r

\* controller.abort(): the signal is aborted; an XHR in flight is cancelled and
\* the request rejects with a CanceledError (which the interceptor passes on).
\* An aborted request never reaches line 414, so its closure's formData is dropped.
AbortController(r) ==
    IF r.phase \in {"xhr", "replay"}
    THEN InterceptorRejected([r EXCEPT !.aborted = TRUE, !.fd = InitialFormData], CanceledError)
    ELSE [r EXCEPT !.aborted = TRUE, !.fd = InitialFormData]

\* The dependency list of the second useEffect with formData.title added.
DepsWithTitle(ipl, fd) == <<ipl, fd.startTime, fd.duration, fd.seats, fd.title>>

\* The dependency list of the second useEffect.
Deps(ipl, fd) == <<ipl, fd.startTime, fd.duration, fd.seats>>

\* The second useEffect without its test of formData.startTime.
EffectFiresAnyStartTime(oldIpl, oldFd, newIpl, newFd) ==
    /\ Deps(oldIpl, oldFd) # Deps(newIpl, newFd)
    /\ newIpl

\* The second useEffect runs setAvailableRooms after a render whose dependencies
\* changed, once the page has loaded and a start time is set.
EffectFires(oldIpl, oldFd, newIpl, newFd) ==
    /\ Deps(oldIpl, oldFd) # Deps(newIpl, newFd)
    /\ newIpl
    /\ newFd.startTime # <<>>

\* The synchronous part of setAvailableRooms (lines 386-393): the stored
\* controller is aborted, a new one is stored and the request is issued.
SetAvailableRoomsStart(rs, ref, fd, cont) ==
    LET rs1 == IF ref \in DOMAIN rs THEN [rs EXCEPT ![ref] = AbortController(@)] ELSE rs
    IN  [reqs |-> Append(rs1, NewAvailRequest(fd, cont)), ref |-> Len(rs1) + 1]

\* The calls still awaited once call id has returned, and where the stored
\* controller is among them (0: its call has returned, abort() does nothing).
RemoveRequest(rs, id) == [i \in 1..(Len(rs) - 1) |-> IF i < id THEN rs[i] ELSE rs[i + 1]]
RefAfterRemove(ref, id) == IF ref = id THEN 0 ELSE IF ref > id THEN ref - 1 ELSE ref

\* data[data.length - 1].email in place of data[0].email.
LastRoom(data) == IF Len(data) > 0 THEN data[Len(data)] ELSE NoRoom

\* The rooms a successful answer puts in formData.room and in the dropdown.
FirstRoom(data) == IF Len(data) > 0 THEN data[1] ELSE NoRoom
createRoomDropdownOptions(rooms) == [i \in 1..Len(rooms) |-> rooms[i]]

\* setFormData of line 414 spreading the current state instead of the closure's
\* formData.
ApplyRoomsToCurrent(current, closureFd, data) == [current EXCEPT !.room = FirstRoom(data)]

\* setFormData({...formData, room: roomEmail}) of line 414: the closure's formData
\* with the room replaced.
ApplyRooms(current, closureFd, data) == [closureFd EXCEPT !.room = FirstRoom(data)]

\* What runs once a setAvailableRooms call has returned: nothing after the
\* useEffect's call; renderError(res, navigate) of line 452 after onBookClick's.
AfterAvailabilityNothing(cont) == {}
AfterAvailability(cont) == IF cont = "renderError" THEN {"renderError:booking"} ELSE {}

Pendings(rs) == {i \in DOMAIN rs : ~Settled(rs[i])}
Zombies(rs) == {i \in DOMAIN rs : rs[i].aborted /\ ~Settled(rs[i])}

\* A promise has settled and its continuation has not run yet: it runs before
\* any other event is handled.
MicrotaskPending == \E i \in DOMAIN reqs : Settled(reqs[i])

EmptyReqs == <<>>

\* The startTime, duration and seats a setAvailableRooms call read from its
\* formData (line 380) and queried for.
NoQuery == [startTime |-> <<>>, duration |-> 0, seats |-> 0]
QueryOf(fd) == [startTime |-> fd.startTime, duration |-> fd.duration, seats |-> fd.seats]

ViewIdle ==
    /\ view = "mounted"
    /\ loading = TRUE
    /\ initialPageLoad = FALSE
    /\ roomLoading = FALSE
    /\ bookClickLoading = FALSE
    /\ formData = InitialFormData
    /\ availableRoomOptions = <<>>
    /\ abortControllerRef = 0
    /\ reqs = EmptyReqs
    /\ bookPc = "idle"
    /\ bookFd = InitialFormData
    /\ effects = {}
    /\ resolved = NoResolution
    /\ roomQuery = NoQuery

Clock == [h : 0..23, m : 0..59]

NoArgs == [fn |-> "none", hours |-> 0, minutes |-> 0, dateString |-> <<>>, timeString |-> <<>>]

TimeIdle ==
    /\ now = [h |-> 0, m |-> 0]
    /\ timeOptions = <<>>
    /\ tpc = "start"
    /\ tzOffset = 0
    /\ targ = NoArgs
    /\ tres = NoResult

\* The runtime offsets of the time zones in use (UTC-12:00 .. UTC+14:00 are
\* 720 .. -840), and every offset below a day.
ZoneOffsets == {-840, -330, 0, 300, 720}
DayOffsets == -(24 * 60 - 1)..(24 * 60 - 1)

\* The dates and times BookRoomView passes to convertToRFC3339: an ISO date and
\* one of the options of populateTimeOptions.
DateStrings == {<<"2", "0", "2", "4", "-", "0", "1", "-", "1", "5">>}
TimeStrings == {formatTime(SlotHours(i), SlotMinutes(i)) : i \in 0..(24 * 4 - 1)}

\* The local clocks at which a start timestamp is computed, and the start times
\* the form can hold then (the options populateTimeOptions offered).
StartClocks == {t \in Clock : t.m \in {0, 40}}
StartTimesAt(t) == {populateTimeOptions(t)[j] : j \in 1..Len(populateTimeOptions(t))}

Args(fn, hours, minutes, dateString, timeString) ==
    [fn |-> fn, hours |-> hours, minutes |-> minutes,
     dateString |-> dateString, timeString |-> timeString]

\* The calls the time specification makes: the helper, the clock and offset of
\* the runtime, and the arguments.
TimeInputs ==
    {[now |-> t, tzOffset |-> 0, targ |-> Args("populateTimeOptions", 0, 0, <<>>, <<>>)] :
        t \in Clock}
    \cup {[now |-> [h |-> 0, m |-> 0], tzOffset |-> 0, targ |-> Args(fn, t.h, t.m, <<>>, <<>>)] :
        fn \in {"formatTime", "toMinutesSinceMidnight"}, t \in Clock}
    \cup {[now |-> [h |-> 0, m |-> 0], tzOffset |-> o,
           targ |-> Args("getTimezoneOffset", 0, 0, <<>>, <<>>)] : o \in DayOffsets}
    \cup {[now |-> [h |-> 0, m |-> 0], tzOffset |-> o,
           targ |-> Args("convertToRFC3339", 0, 0, d, ts)] :
        o \in ZoneOffsets, d \in DateStrings, ts \in TimeStrings}
    \cup UNION {{[now |-> t, tzOffset |-> o,
                  targ |-> Args("formattedStartTime", 0, 0, <<>>, ts)] :
                    o \in ZoneOffsets, ts \in StartTimesAt(t)} : t \in StartClocks}

TimeInit ==
    /\ \E i \in TimeInputs : now = i.now /\ tzOffset = i.tzOffset /\ targ = i.targ
    /\ timeOptions = <<>>
    /\ tpc = "start"
    /\ tres = NoResult
    /\ ApiIdle
    /\ ViewIdle

\* A caller (initializeDropdowns) evaluates populateTimeOptions().
CallPopulateTimeOptions ==
    /\ tpc = "start"
    /\ targ.fn = "populateTimeOptions"
    /\ timeOptions' = populateTimeOptions(now)
    /\ tpc' = "done"
    /\ UNCHANGED <<now, tzOffset, targ, tres, apiVars, viewVars>>

\* A caller evaluates the helper targ names; its result is kept in tres.
Returns(res) ==
    /\ tres = NoResult
    /\ tres' = res
    /\ UNCHANGED <<now, timeOptions, tpc, tzOffset, targ, apiVars, viewVars>>

CallFormatTime ==
    /\ targ.fn = "formatTime"
    /\ Returns(StringResult(formatTime(targ.hours, targ.minutes)))

CallToMinutesSinceMidnight ==
    /\ targ.fn = "toMinutesSinceMidnight"
    /\ Returns(NumberResult(toMinutesSinceMidnight(targ.hours, targ.minutes)))

CallGetTimezoneOffset ==
    /\ targ.fn = "getTimezoneOffset"
    /\ Returns(StringResult(getTimezoneOffset(tzOffset)))

CallConvertToRFC3339 ==
    /\ targ.fn = "convertToRFC3339"
    /\ Returns(convertToRFC3339(targ.dateString, targ.timeString, tzOffset))

\* setAvailableRooms or onBookClick computes the start timestamp it sends.
CallFormattedStartTime ==
    /\ targ.fn = "formattedStartTime"
    /\ Returns(formattedStartTime(now, tzOffset, targ.timeString))

TimeNext ==
    \/ CallPopulateTimeOptions
    \/ CallFormatTime
    \/ CallToMinutesSinceMidnight
    \/ CallGetTimezoneOffset
    \/ CallConvertToRFC3339
    \/ CallFormattedStartTime

SpecTime == TimeInit /\ [][TimeNext]_vars

(***************************************************************************)
(* Api client: the calls                                                   *)
(***************************************************************************)

\* The method's request (stack[1]) settled as r: the method's code after its await.
MethodContinue(r, evs) ==
    /\ stack' = <<r>>
    /\ UNCHANGED <<method, aborted>>
    /\ IF stage = "main"
       THEN /\ result' = SingleResult(method, r)
            /\ thrown' = IF r.phase = "rejected" /\ method \notin {"validateSession", "logout"}
                         THEN r.rej ELSE thrown
            /\ apc' = "done"
            /\ events' = evs
            /\ UNCHANGED stage
       ELSE IF stage = "url"
       THEN LET reply == SingleResult("getOAuthUrl", r).env
            IN  /\ thrown' = IF r.phase = "rejected" THEN r.rej ELSE thrown
                /\ IF method = "loginChrome"
                   THEN IF Truthy(reply.data)
                        THEN /\ apc' = "msg"
                             /\ stage' = "none"
                             /\ result' = result
                             /\ events' = evs
                        ELSE /\ apc' = "done"
                             /\ stage' = stage
                             /\ result' = Envelope(createReply("error", "undefined", "undefined"))
                             /\ events' = evs \o <<Ev(0, "no url")>>
                   ELSE \* login
                        /\ apc' = "done"
                        /\ stage' = stage
                        /\ result' = Plain("undefined")
                        /\ events' = evs \o <<Ev(0, IF Truthy(reply.data) THEN "redirect" ELSE "toast")>>
       ELSE \* stage = "callback": handleChromeOauthFlow after handleOAuthCallback
            LET res == SingleResult("handleOAuthCallback", r).env
            IN  /\ thrown' = IF r.phase = "rejected" THEN r.rej ELSE thrown
                /\ result' = Envelope(ChromeFlowResult(res))
                /\ apc' = "done"
                /\ events' = evs
                /\ UNCHANGED stage

\* The stack changed to st: logout() calls that finished return, and when the
\* method's request has settled the method goes on.
ApiProceed(st, evs) ==
    LET u == Unwind(st, evs)
    IN  IF Settled(u.stack[1])
        THEN MethodContinue(u.stack[1], u.events)
        ELSE /\ stack' = u.stack
             /\ events' = u.events
             /\ UNCHANGED <<method, apc, stage, aborted, thrown, result>>

\* A caller invokes public method m.
ApiCall(m) ==
    /\ apc = "idle"
    /\ method' = m
    /\ UNCHANGED <<aborted, events, timeVars, viewVars>>
    /\ IF m \in SingleRequestMethods \cup {"loginChrome", "login"}
       THEN /\ apc' = "client"
            /\ stage' = IF m \in SingleRequestMethods THEN "main" ELSE "url"
            /\ stack' = <<NewRequest("main")>>
            /\ UNCHANGED <<thrown, result>>
       ELSE IF m = "refreshToken"
       THEN /\ apc' = "refreshDirect"
            /\ UNCHANGED <<stage, stack, thrown, result>>
       ELSE IF m = "handleChromeOauthFlow"
       THEN /\ apc' = "msg"
            /\ UNCHANGED <<stage, stack, thrown, result>>
       ELSE \* handleError(error)
            \E error \in ErrorInputs :
                /\ thrown' = error
                /\ result' = Envelope(handleError(error))
                /\ apc' = "done"
                /\ UNCHANGED <<stage, stack>>

\* The backend (or the network) ends the XHR of the request on top of the stack.
XhrResponds(o) ==
    /\ apc = "client"
    /\ LET n == Len(stack)
           r == XhrSettled(stack[n], o)
       IN  /\ stack[n].phase \in {"xhr", "replay"}
           /\ ApiProceed([stack EXCEPT ![n] = r],
                         IF r.phase = "refresh" THEN events \o <<Ev(n, "refresh")>> ELSE events)
    /\ UNCHANGED <<timeVars, viewVars>>

RefreshOutcome(tok) == IF tok THEN "token" ELSE "null"

\* axios.get('/auth/token/refresh') ends: with a token (tok) or not.
RefreshResponds(tok) ==
    /\ UNCHANGED <<timeVars, viewVars>>
    /\ \/ /\ apc = "refreshDirect"
          /\ result' = IF tok THEN Plain("token") ELSE Plain("null")
          /\ apc' = "done"
          /\ events' = IF tok THEN events ELSE events \o <<Ev(0, "no token")>>
          /\ UNCHANGED <<method, stage, stack, aborted, thrown>>
       \/ /\ apc = "client"
          /\ LET n == Len(stack)
                 r == InterceptorAfterRefresh(stack[n], tok,
                                              aborted /\ n = 1 /\ method = "getAvailableRooms")
             IN  /\ stack[n].phase = "refresh"
                 /\ IF r.phase = "logout"
                    THEN /\ n <= MaxLogoutDepth
                         /\ stack' = [stack EXCEPT ![n] = r] \o <<NewRequest("logout")>>
                         /\ events' = events \o <<Ev(n, RefreshOutcome(tok)), Ev(n, "logout")>>
                         /\ UNCHANGED <<method, apc, stage, aborted, thrown, result>>
                    ELSE ApiProceed([stack EXCEPT ![n] = r],
                                    events \o <<Ev(n, RefreshOutcome(tok)), Ev(n, "replay")>>)

\* The caller aborts the AbortController whose signal getAvailableRooms was given:
\* an XHR in flight is cancelled; between XHRs only the signal changes.
AbortRequest ==
    /\ method = "getAvailableRooms"
    /\ apc = "client"
    /\ ~aborted
    /\ aborted' = TRUE
    /\ UNCHANGED <<timeVars, viewVars>>
    /\ IF stack[1].phase \in {"xhr", "replay"}
       THEN LET r == InterceptorRejected(stack[1], CanceledError)
            IN  /\ stack' = <<r>>
                /\ result' = SingleResult(method, r)
                /\ thrown' = r.rej
                /\ apc' = "done"
                /\ UNCHANGED <<method, stage, events>>
       ELSE UNCHANGED <<method, apc, stage, stack, events, thrown, result>>

\* The extension's background script answers the startAuthFlow message.
MsgResponds(success) ==
    /\ apc = "msg"
    /\ UNCHANGED <<method, aborted, thrown, timeVars, viewVars>>
    /\ IF success
       THEN /\ apc' = "client"
            /\ stage' = "callback"
            /\ stack' = <<NewRequest("main")>>
            /\ UNCHANGED <<result, events>>
       ELSE /\ apc' = "done"
            /\ result' = Envelope(createReply("error", "auth flow failed", "undefined"))
            /\ events' = events \o <<Ev(0, "msg failed")>>
            /\ UNCHANGED <<stage, stack>>

ApiInit == ApiIdle /\ TimeIdle /\ ViewIdle

ApiNext ==
    \/ \E m \in Methods : ApiCall(m)
    \/ \E o \in Outcomes : XhrResponds(o)
    \/ \E tok \in BOOLEAN : RefreshResponds(tok)
    \/ AbortRequest
    \/ \E success \in BOOLEAN : MsgResponds(success)

SpecApi == ApiInit /\ [][ApiNext]_vars

(***************************************************************************)
(* BookRoomView: the handlers                                              *)
(***************************************************************************)

Range(f) == {f[i] : i \in DOMAIN f}

\* After a render: the second useEffect calls setAvailableRooms (of the new
\* render, closing over newFd) when its dependencies changed. rl is roomLoading
\* as the handler left it.
AfterRender(rs, ref, rl, oldIpl, oldFd, newIpl, newFd) ==
    IF EffectFires(oldIpl, oldFd, newIpl, newFd)
    THEN LET st == SetAvailableRoomsStart(rs, ref, newFd, "none")
         IN  [reqs |-> st.reqs, ref |-> st.ref, roomLoading |-> TRUE,
              called |-> {"getAvailableRooms"}]
    ELSE [reqs |-> rs, ref |-> ref, roomLoading |-> rl, called |-> {}]

\* The first useEffect: initializeDropdowns() ends (api.getMaxSeatCount answered
\* with success or with an error envelope), then .finally marks the page loaded.
MountResolves(ok) ==
    /\ view = "mounted"
    /\ loading
    /\ LET opts == IF ok THEN populateTimeOptions(now) ELSE timeOptions
           fd == IF ok THEN [formData EXCEPT !.startTime = opts[1],
                                             !.seats = preferences.seats,
                                             !.duration = preferences.duration]
                 ELSE formData
           a == AfterRender(reqs, abortControllerRef, roomLoading, initialPageLoad, formData, TRUE, fd)
       IN  /\ timeOptions' = opts
           /\ formData' = fd
           /\ reqs' = a.reqs
           /\ abortControllerRef' = a.ref
           /\ roomLoading' = a.roomLoading
           /\ effects' = a.called
    /\ initialPageLoad' = TRUE
    /\ loading' = FALSE
    /\ resolved' = NoResolution
    /\ UNCHANGED <<view, bookClickLoading, availableRoomOptions, bookPc, bookFd, roomQuery,
                   now, tpc, tzOffset, targ, tres, apiVars>>

\* handleInputChange(id, value): the user changes a field; the render that follows
\* may run the second useEffect.
HandleInputChange(id, value) ==
    /\ view = "mounted"
    /\ ~loading
    /\ ~MicrotaskPending
    /\ formData[id] # value
    /\ LET fd == [formData EXCEPT ![id] = value]
           a == AfterRender(reqs, abortControllerRef, roomLoading, initialPageLoad, formData,
                            initialPageLoad, fd)
       IN  /\ formData' = fd
           /\ reqs' = a.reqs
           /\ abortControllerRef' = a.ref
           /\ roomLoading' = a.roomLoading
           /\ effects' = a.called
           /\ Cardinality(Zombies(a.reqs)) <= MaxZombies
    /\ resolved' = NoResolution
    /\ UNCHANGED <<view, loading, initialPageLoad, bookClickLoading, availableRoomOptions,
                   bookPc, bookFd, roomQuery, timeVars, apiVars>>

\* The inputs of the form and the values each offers: the dropdowns offer what
\* initializeDropdowns stored (nothing when it failed), the room dropdown the
\* available rooms.
InputIds == {"startTime", "duration", "seats", "title", "room"}
InputChoices(id) ==
    CASE id = "startTime" -> Range(timeOptions)
      [] id = "duration" -> IF timeOptions # <<>> THEN DurationChoices ELSE {}
      [] id = "seats" -> IF timeOptions # <<>> THEN SeatChoices ELSE {}
      [] id = "title" -> TitleChoices
      [] id = "room" -> Range(availableRoomOptions)

\* disabled={roomLoading || !formData.room}, and a LoadingButton that is loading
\* takes no click.
BookButtonEnabled == ~roomLoading /\ formData.room # NoRoom /\ ~bookClickLoading

\* onBookClick up to its await (lines 422-446): setBookClickLoading(true), then
\* return when no room is selected, else api.createEvent(payload) is called.
OnBookClickSync(hasRoom) ==
    /\ bookClickLoading' = TRUE
    /\ IF ~hasRoom
       THEN /\ effects' = {"onBookClick"}
            /\ UNCHANGED <<bookPc, bookFd>>
       ELSE /\ bookPc' = "creating"
            /\ bookFd' = Closure(formData)
            /\ effects' = {"onBookClick", "createEvent"}

\* onBookClick is invoked: by a click on the enabled button, or with no room
\* selected (the case its first test is written for).
OnBookClick ==
    /\ view = "mounted"
    /\ ~loading
    /\ ~MicrotaskPending
    /\ BookButtonEnabled \/ formData.room = NoRoom
    /\ OnBookClickSync(formData.room # NoRoom)
    /\ resolved' = NoResolution
    /\ UNCHANGED <<view, loading, initialPageLoad, roomLoading, formData, availableRoomOptions,
                   abortControllerRef, reqs, roomQuery, timeVars, apiVars>>

\* api.createEvent resolves (lines 446-461): on success the options are cleared
\* and the parent is told (it moves away); otherwise availability is refreshed
\* with the closure's formData and the error is rendered after the refresh.
CreateEventResolves(ok) ==
    /\ view = "mounted"
    /\ bookPc = "creating"
    /\ ~MicrotaskPending
    /\ bookClickLoading' = FALSE
    /\ bookPc' = "idle"
    /\ bookFd' = InitialFormData
    /\ resolved' = NoResolution
    /\ IF ok
       THEN /\ availableRoomOptions' = <<>>
            /\ effects' = {"toast.success", "onRoomBooked"}
            /\ view' = "left"
            /\ UNCHANGED <<roomLoading, reqs, abortControllerRef>>
       ELSE LET st == SetAvailableRoomsStart(reqs, abortControllerRef, bookFd, "renderError")
            IN  /\ reqs' = st.reqs
                /\ abortControllerRef' = st.ref
                /\ roomLoading' = TRUE
                /\ effects' = {"getAvailableRooms"}
                /\ Cardinality(Zombies(st.reqs)) <= MaxZombies
                /\ UNCHANGED <<availableRoomOptions, view>>
    /\ UNCHANGED <<loading, initialPageLoad, formData, roomQuery, timeVars, apiVars>>

\* setAvailableRooms after its await (lines 395-419) for request id, settled as r,
\* followed by what awaited it; leaves: the interceptor navigated to sign-in.
AvailabilityResolved(id, r, leaves) ==
    LET res == IF r.phase = "fulfilled" THEN r.data ELSE handleError(r.rej)
        rs == RemoveRequest(reqs, id)
        ref == RefAfterRemove(abortControllerRef, id)
        applied == res.status \notin {"ignore", "error"}
        fd == IF applied THEN ApplyRooms(formData, r.fd, res.data) ELSE formData
        a == AfterRender(rs, ref, FALSE, initialPageLoad, formData,
                         initialPageLoad, fd)
    IN  /\ formData' = fd
        /\ availableRoomOptions' = IF applied THEN createRoomDropdownOptions(res.data)
                                   ELSE availableRoomOptions
        /\ roomLoading' = a.roomLoading
        /\ reqs' = a.reqs
        /\ abortControllerRef' = a.ref
        /\ Cardinality(Zombies(a.reqs)) <= MaxZombies
        /\ effects' = a.called
                      \cup (IF res.status = "error" THEN {"renderError:availability"} ELSE {})
                      \cup AfterAvailability(r.cont)
                      \cup (IF leaves THEN {"navigate:signIn"} ELSE {})
        /\ resolved' = [kind |-> "availability", status |-> res.status,
                        aborted |-> r.aborted, cont |-> r.cont,
                        data |-> IF applied THEN res.data ELSE <<>>]
        /\ roomQuery' = IF ~applied THEN roomQuery
                        ELSE IF FirstRoom(res.data) = NoRoom THEN NoQuery ELSE QueryOf(r.fd)
        /\ view' = IF leaves THEN "left" ELSE view
        /\ UNCHANGED <<loading, initialPageLoad, bookClickLoading, bookPc, bookFd,
                       timeVars, apiVars>>

\* The request changed to r without settling.
AvailabilityAwaits(id, r) ==
    /\ reqs' = [reqs EXCEPT ![id] = r]
    /\ effects' = {}
    /\ resolved' = NoResolution
    /\ UNCHANGED <<view, loading, initialPageLoad, roomLoading, bookClickLoading, formData,
                   availableRoomOptions, abortControllerRef, bookPc, bookFd, roomQuery,
                   timeVars, apiVars>>

\* The XHR of availability request id ends with outcome o.
AvailXhrResponds(id, o) ==
    /\ view = "mounted"
    /\ ~MicrotaskPending
    /\ id \in DOMAIN reqs
    /\ reqs[id].phase \in {"xhr", "replay"}
    /\ LET r == XhrSettled(reqs[id], o)
       IN  IF Settled(r) THEN AvailabilityResolved(id, r, FALSE) ELSE AvailabilityAwaits(id, r)

\* refreshToken() of availability request id returns (a token or null).
AvailRefreshResponds(id, tok) ==
    /\ view = "mounted"
    /\ ~MicrotaskPending
    /\ id \in DOMAIN reqs
    /\ reqs[id].phase = "refresh"
    /\ LET r == InterceptorAfterRefresh(reqs[id], tok, reqs[id].aborted)
       IN  IF Settled(r) THEN AvailabilityResolved(id, r, FALSE) ELSE AvailabilityAwaits(id, r)

\* logout() awaited by the interceptor of availability request id returns: the
\* interceptor navigates to sign-in and rejects with the original error.
AvailLogoutReturns(id) ==
    /\ view = "mounted"
    /\ ~MicrotaskPending
    /\ id \in DOMAIN reqs
    /\ reqs[id].phase = "logout"
    /\ AvailabilityResolved(id, InterceptorAfterLogout(reqs[id]), TRUE)

\* The continuation of a request that abort() cancelled runs.
CancelledRuns(id) ==
    /\ view = "mounted"
    /\ id \in DOMAIN reqs
    /\ Settled(reqs[id])
    /\ AvailabilityResolved(id, reqs[id], FALSE)

Init ==
    /\ now = [h |-> 23, m |-> 50]
    /\ timeOptions = <<>>
    /\ tpc = "start"
    /\ tzOffset = 0
    /\ targ = NoArgs
    /\ tres = NoResult
    /\ ApiIdle
    /\ ViewIdle

Next ==
    \/ \E ok \in BOOLEAN : MountResolves(ok)
    \/ \E id \in InputIds : \E v \in InputChoices(id) : HandleInputChange(id, v)
    \/ OnBookClick
    \/ \E ok \in BOOLEAN : CreateEventResolves(ok)
    \/ \E id \in DOMAIN reqs, o \in AvailOutcomes : AvailXhrResponds(id, o)
    \/ \E id \in DOMAIN reqs, tok \in BOOLEAN : AvailRefreshResponds(id, tok)
    \/ \E id \in DOMAIN reqs : AvailLogoutReturns(id)
    \/ \E id \in DOMAIN reqs : CancelledRuns(id)

Spec == Init /\ [][Next]_vars

\* api.getMaxSeatCount() always resolves (the client's requests time out, and
\* its methods never reject), so the first useEffect's promise settles.
SpecLive == Spec /\ WF_vars(\E ok \in BOOLEAN : MountResolves(ok))

(***************************************************************************)
(* Claims                                                                  *)
(***************************************************************************)

\* The index (0..95) of the quarter-hour slot that is the 15-minute floor of t.
FloorSlot(t) == t.h * 4 + (t.m \div 15)

\* C10: for every current time t, populateTimeOptions returns exactly the
\* quarter-hour slots from the 15-minute floor of t on, in increasing order,
\* 15 minutes apart, and the last one is 23:45 (so it is never empty).
C10_TimeOptionsFromFloor ==
    tpc = "done" =>
        LET k0 == FloorSlot(now)
            n == Len(timeOptions)
        IN  /\ n = 96 - k0
            /\ n >= 1
            /\ \A j \in 1..n :
                   timeOptions[j] = formatTime((k0 + j - 1) \div 4, ((k0 + j - 1) % 4) * 15)
            /\ timeOptions[n] = <<"1", "1", ":", "4", "5", " ", "P", "M">>
            /\ \A j \in 1..(n - 1) : timeOptions[j] # timeOptions[j + 1]

\* C10 witness: a call made at 10:07 has returned, starting at "10:00 AM".
C10_Witness ==
    /\ tpc = "done"
    /\ now = [h |-> 10, m |-> 7]
    /\ timeOptions[1] = <<"1", "0", ":", "0", "0", " ", "A", "M">>
    /\ Len(timeOptions) = 56

\* "now" rounded up to the next quarter-hour, in minutes since midnight.
CeilQuarter(t) == ((toMinutesSinceMidnight(t.h, t.m) + 14) \div 15) * 15

\* C11: for every current time t, no slot populateTimeOptions returns is earlier
\* than t: every slot is at or after t rounded up to the next quarter-hour.
C11_NoSlotBeforeNow ==
    tpc = "done" =>
        \A j \in 1..Len(timeOptions) :
            /\ ParseClock(timeOptions[j]) >= toMinutesSinceMidnight(now.h, now.m)
            /\ ParseClock(timeOptions[j]) >= CeilQuarter(now)

Str_2024_01_15 == <<"2", "0", "2", "4", "-", "0", "1", "-", "1", "5">>
Str_2_00_PM == <<"2", ":", "0", "0", " ", "P", "M">>

\* convertToRFC3339 has returned for the arguments targ names.
ConvertReturned == targ.fn = "convertToRFC3339" /\ tres # NoResult

\* The call of the example: ("2024-01-15", "2:00 PM") where the offset is "+05:30".
ConvertExample ==
    /\ ConvertReturned
    /\ targ.dateString = Str_2024_01_15
    /\ targ.timeString = Str_2_00_PM
    /\ tzOffset = -330

\* The result is {isoDate}T{HH:MM:SS}{offset}: 10 + 1 + 8 characters with no
\* sub-second part, followed by the string getTimezoneOffset returned.
ConvertShape ==
    /\ tres.kind = "string"
    /\ Len(tres.str) = 25
    /\ tres.str[11] = "T"
    /\ SubSeq(tres.str, 20, 25) = getTimezoneOffset(tzOffset)

\* C12 as claimed: the result has the shape {isoDate}T{isoTime}{offset}, and for
\* ("2024-01-15", "2:00 PM") at offset "+05:30" it ends in "T08:30:00+05:30",
\* the wall-clock time shifted by the offset.
C12_ExampleShiftedByOffset ==
    /\ ConvertReturned => ConvertShape
    /\ ConvertExample =>
           SubSeq(tres.str, 11, 25) = <<"T", "0", "8", ":", "3", "0", ":", "0", "0",
                                        "+", "0", "5", ":", "3", "0">>

\* C12 amended: the result is the given date, "T", the given wall-clock time as
\* HH:MM:00 (not shifted), and the unmodified offset string; for ("2024-01-15",
\* "2:00 PM") at offset "+05:30" it is "2024-01-15T14:00:00+05:30".
C12_WallClockWithOffset ==
    /\ ConvertReturned =>
           /\ ConvertShape
           /\ \E i \in 0..(24 * 4 - 1) :
                  /\ targ.timeString = formatTime(SlotHours(i), SlotMinutes(i))
                  /\ tres.str = targ.dateString \o <<"T">>
                                 \o TwoDigits(SlotHours(i)) \o <<":">> \o TwoDigits(SlotMinutes(i))
                                 \o <<":", "0", "0">> \o getTimezoneOffset(tzOffset)
    /\ ConvertExample =>
           SubSeq(tres.str, 11, 25) = <<"T", "1", "4", ":", "0", "0", ":", "0", "0",
                                        "+", "0", "5", ":", "3", "0">>

\* C12 witness: the call of the example has returned "2024-01-15T14:00:00+05:30".
C12_Witness ==
    /\ ConvertExample
    /\ tres.str = Str_2024_01_15 \o <<"T", "1", "4", ":", "0", "0", ":", "0", "0",
                                       "+", "0", "5", ":", "3", "0">>

\* C13: for every hour h in 0..23 and minute m in 0..59, formatTime(h, m) is
\* "<H>:<MM> <P>": H is 12 when h is 0 or 12 and h mod 12 otherwise, unpadded; MM
\* is m on two digits; P is "AM" when h < 12 and "PM" otherwise.
C13_FormatTimeShape ==
    (targ.fn = "formatTime" /\ tres # NoResult) =>
        LET h == targ.hours
            m == targ.minutes
            H == IF h \in {0, 12} THEN <<"1", "2">>
                 ELSE IF h % 12 < 10 THEN <<DigitChar(h % 12)>>
                 ELSE <<"1", DigitChar((h % 12) - 10)>>
            P == IF h < 12 THEN <<"A", "M">> ELSE <<"P", "M">>
        IN  /\ tres.kind = "string"
            /\ tres.str = H \o <<":", DigitChar(m \div 10), DigitChar(m % 10), " ">> \o P
            /\ (h = 0 /\ m = 0) => tres.str = <<"1", "2", ":", "0", "0", " ", "A", "M">>
            /\ (h = 12 /\ m = 0) => tres.str = <<"1", "2", ":", "0", "0", " ", "P", "M">>
            /\ (h = 13 /\ m = 5) => tres.str = <<"1", ":", "0", "5", " ", "P", "M">>

\* C13 witness: formatTime(13, 5) has returned "1:05 PM".
C13_Witness ==
    /\ targ.fn = "formatTime"
    /\ targ.hours = 13
    /\ targ.minutes = 5
    /\ tres.str = <<"1", ":", "0", "5", " ", "P", "M">>

\* C14: for every runtime offset o with |o| < 24*60, getTimezoneOffset returns
\* the sign ("+" exactly when o <= 0), |o| div 60 on two digits, ":", |o| mod 60
\* on two digits; the pattern convertToRFC3339 matches it against always matches,
\* and the signed minute count re-parsed from it is -o.
C14_OffsetStringRoundTrip ==
    (targ.fn = "getTimezoneOffset" /\ tres # NoResult) =>
        /\ tres.kind = "string"
        /\ tres.str = <<IF tzOffset <= 0 THEN "+" ELSE "-">>
                       \o TwoDigits(Abs(tzOffset) \div 60) \o <<":">>
                       \o TwoDigits(Abs(tzOffset) % 60)
        /\ Len(MatchOffset(tres.str)) = 3
        /\ ParsedOffsetInMinutes(MatchOffset(tres.str)) = -tzOffset

\* C14 witness: where the runtime offset is 300 (UTC-05:00) the call has
\* returned "-05:00".
C14_Witness ==
    /\ targ.fn = "getTimezoneOffset"
    /\ tzOffset = 300
    /\ tres.str = <<"-", "0", "5", ":", "0", "0">>

\* C15: toMinutesSinceMidnight(h, m) is h*60 + m, no other (h2, m2) in
\* 0..23 x 0..59 has the same value, and values are ordered as the times are.
C15_MinutesInjectiveOrdered ==
    (targ.fn = "toMinutesSinceMidnight" /\ tres # NoResult) =>
        /\ tres.kind = "number"
        /\ tres.num = targ.hours * 60 + targ.minutes
        /\ \A t \in Clock :
               /\ toMinutesSinceMidnight(t.h, t.m) = tres.num =>
                      (t.h = targ.hours /\ t.m = targ.minutes)
               /\ toMinutesSinceMidnight(t.h, t.m) < tres.num <=>
                      (t.h < targ.hours \/ (t.h = targ.hours /\ t.m < targ.minutes))

\* C15 witness: toMinutesSinceMidnight(1, 0) has returned 60, more than the 59
\* of (0, 59).
C15_Witness ==
    /\ targ.fn = "toMinutesSinceMidnight"
    /\ targ.hours = 1
    /\ targ.minutes = 0
    /\ tres.num = 60
    /\ toMinutesSinceMidnight(0, 59) < tres.num

\* ---- Api client ----

\* What the interceptor of the method's own request (depth 1) did, in order.
MainEvents == LET mine == SelectSeq(events, LAMBDA x : x.d = 1)
              IN  [i \in 1..Len(mine) |-> mine[i].e]

IsPrefix(a, b) == Len(a) <= Len(b) /\ SubSeq(b, 1, Len(a)) = a

HasEvent(d, e) == \E i \in 1..Len(events) : events[i] = Ev(d, e)

\* The methods whose catch block is "return this.handleError(error)".
HandleErrorMethods == DomainMethods \cup {"getOAuthUrl", "handleOAuthCallback"}

\* C5: for every request sent through the client, whatever the responses, the
\* interceptor calls refreshToken at most once and replays the request at most
\* once; a replayed request answered 401 is rejected with that 401.
C5_AtMostOneRetry ==
    \A k \in 1..Len(stack) :
        /\ stack[k].nRefresh <= 1
        /\ stack[k].nReplay <= 1
        /\ stack[k].phase = "replay" => stack[k].retry
        /\ (stack[k].nReplay = 1 /\ stack[k].phase = "refresh") => FALSE

\* C5 witness: a replayed request was answered 401 and has been rejected with it,
\* after one refresh and one replay.
C5_Witness ==
    /\ apc = "done"
    /\ stack # <<>>
    /\ stack[1].phase = "rejected"
    /\ stack[1].rej.http = 401
    /\ stack[1].nRefresh = 1
    /\ stack[1].nReplay = 1

\* The method's request was answered 401 and refreshToken then returned a token.
RefreshedPath == IsPrefix(<<"refresh", "token">>, MainEvents)

ResultSuccessful ==
    \/ result.kind = "envelope" /\ result.env.status = "success"
    \/ result.kind = "true"

\* C6 as claimed: after a 401 and a refresh that returned a token, the request is
\* replayed once, nothing is logged out or navigated, and the caller's single
\* resolution is successful.
C6_RefreshThenSuccess ==
    (apc = "done" /\ stage = "main" /\ RefreshedPath) =>
        /\ stack[1].nReplay = 1
        /\ \A i \in 1..Len(events) : events[i].e \notin {"logout", "navigate"}
        /\ result.kind \notin {"pending", "thrown"}
        /\ ResultSuccessful

\* C6 amended: after a 401 and a refresh that returned a token, the request is
\* replayed exactly once, nothing is logged out or navigated, and the caller's
\* single resolution is the replay's: successful exactly when the replay is
\* answered 2xx, otherwise what the method's catch makes of the replay's error.
C6_RefreshThenReplayOutcome ==
    (apc = "done" /\ stage = "main" /\ RefreshedPath) =>
        /\ stack[1].nReplay = 1
        /\ MainEvents = <<"refresh", "token", "replay">>
        /\ \A i \in 1..Len(events) : events[i].e \notin {"logout", "navigate"}
        /\ result.kind \notin {"pending", "thrown"}
        /\ ResultSuccessful <=> stack[1].phase = "fulfilled"
        /\ (stack[1].phase = "fulfilled" /\ method \in DomainMethods) => result.env = stack[1].data
        /\ (stack[1].phase = "rejected" /\ method \in HandleErrorMethods) =>
               /\ result.kind = "envelope"
               /\ result.env.status \in {"error", "ignore"}
               /\ result.env.status = "ignore" <=> stack[1].rej.code = "ERR_CANCELED"

\* C6 witness: createEvent was answered 401, the refresh returned a token, the
\* replay was answered 2xx and the caller got the success envelope.
C6_Witness ==
    /\ apc = "done"
    /\ method = "createEvent"
    /\ MainEvents = <<"refresh", "token", "replay">>
    /\ stack[1].phase = "fulfilled"
    /\ result.kind = "envelope"
    /\ result.env.status = "success"

\* The method's request was answered 401 and refreshToken then returned null.
RefreshFailedPath == IsPrefix(<<"refresh", "null">>, MainEvents)

\* C7 as claimed: after a 401 whose refresh fails the interceptor logs out, then
\* navigates to sign-in, then rejects with the original 401 error, without
\* replaying, and the caller's public method resolves that error to an envelope.
C7_RefreshFailedEnvelope ==
    (RefreshFailedPath /\ apc = "done" /\ stage = "main") =>
        /\ MainEvents = <<"refresh", "null", "logout", "navigate", "reject">>
        /\ stack[1].nReplay = 0
        /\ stack[1].rej = stack[1].err
        /\ result.kind = "envelope"

\* C7 amended: after a 401 whose refresh fails the interceptor logs out, then
\* navigates to sign-in, then rejects with the original 401 error, without
\* replaying; a method whose catch is handleError resolves that error to an
\* envelope (its response body, else the generic error), while validateSession
\* and logout, whose catch returns false, resolve to false.
C7_RefreshFailedLogout ==
    RefreshFailedPath =>
        /\ IsPrefix(MainEvents, <<"refresh", "null", "logout", "navigate", "reject">>)
        /\ stack[1].nReplay = 0
        /\ stack[1].err.http = 401
        /\ Settled(stack[1]) =>
               /\ MainEvents = <<"refresh", "null", "logout", "navigate", "reject">>
               /\ stack[1].phase = "rejected"
               /\ stack[1].rej = stack[1].err
        /\ (apc = "done" /\ stage = "main") =>
               /\ Settled(stack[1])
               /\ method \in HandleErrorMethods =>
                      /\ result.kind = "envelope"
                      /\ thrown = stack[1].err
                      /\ result.env = IF HasBody(thrown.body) THEN thrown.body
                                      ELSE createReply("error", "Something went wrong", "null")
               /\ method \in {"validateSession", "logout"} => result.kind = "false"

\* C7 witness: createEvent was answered 401 with a body, the refresh failed, the
\* interceptor logged out, navigated and rejected, and the caller got the body.
C7_Witness ==
    /\ apc = "done"
    /\ method = "createEvent"
    /\ MainEvents = <<"refresh", "null", "logout", "navigate", "reject">>
    /\ result.kind = "envelope"
    /\ result.env = ErrBody

\* The call failed: its last request was rejected, the refresh it made returned
\* nothing, the OAuth URL was missing, or the extension answered with a failure.
MethodFailed ==
    \/ stack # <<>> /\ stack[1].phase = "rejected"
    \/ HasEvent(0, "no token")
    \/ HasEvent(0, "no url")
    \/ HasEvent(0, "toast")
    \/ HasEvent(0, "msg failed")

\* C8 as claimed: no public method rejects, and every failure resolves to a
\* {status, message, data} envelope.
C8_AllFailuresAreEnvelopes ==
    apc = "done" =>
        /\ result.kind \notin {"pending", "thrown"}
        /\ MethodFailed => result.kind = "envelope"

\* C8 amended: no public method rejects; a failure of a domain operation, of
\* getOAuthUrl, handleOAuthCallback, loginChrome or handleChromeOauthFlow resolves
\* to an envelope whose status is "error" or "ignore", while validateSession and
\* logout resolve to false, refreshToken to null and login to undefined (after
\* an error toast).
C8_NoMethodThrows ==
    apc = "done" =>
        /\ result.kind \notin {"pending", "thrown"}
        /\ MethodFailed =>
              /\ method \in HandleErrorMethods \cup {"loginChrome", "handleChromeOauthFlow"} =>
                     /\ result.kind = "envelope"
                     /\ result.env.status \in {"error", "ignore"}
                     /\ result.env.status = "ignore" => method = "getAvailableRooms"
              /\ method \in {"validateSession", "logout"} => result.kind = "false"
              /\ method = "refreshToken" => result.kind = "null"
              /\ method = "login" => result.kind = "undefined" /\ HasEvent(0, "toast")

\* C8 witness: a domain operation ended in a network failure and resolved to the
\* generic error envelope.
C8_Witness ==
    /\ apc = "done"
    /\ method = "getFloors"
    /\ stack[1].phase = "rejected"
    /\ stack[1].rej.code = "ERR_NETWORK"
    /\ result = Envelope(createReply("error", "Something went wrong", "null"))

\* C9: handleError maps an error to one envelope by priority: a cancelled request
\* gives status "ignore" even when it carries a response body; otherwise the
\* response body is returned unchanged when there is one; otherwise the generic
\* "error" envelope; "ignore" is produced for cancelled requests only.
C9_HandleErrorPriority ==
    (apc = "done" /\ (method = "handleError"
                      \/ (method \in HandleErrorMethods /\ stack[1].phase = "rejected"))) =>
        /\ result.kind = "envelope"
        /\ thrown.code = "ERR_CANCELED" =>
               result.env = [status |-> "ignore", message |-> "Pending request aborted", data |-> "null"]
        /\ (thrown.code # "ERR_CANCELED" /\ HasBody(thrown.body)) => result.env = thrown.body
        /\ (thrown.code # "ERR_CANCELED" /\ ~HasBody(thrown.body)) =>
               result.env = [status |-> "error", message |-> "Something went wrong", data |-> "null"]
        /\ result.env.status = "ignore" => thrown.code = "ERR_CANCELED"

\* C9 witness: handleError was handed a cancelled error that carries a response
\* body and answered "ignore".
C9_Witness ==
    /\ apc = "done"
    /\ method = "handleError"
    /\ thrown.code = "ERR_CANCELED"
    /\ thrown.body = ErrBody
    /\ result.kind = "envelope"
    /\ result.env.status = "ignore"

\* ---- BookRoomView ----

\* A step in which a setAvailableRooms call whose controller had been aborted
\* returns.
AbortedCallReturns == resolved'.kind = "availability" /\ resolved'.aborted

\* C1: a request R1 that a later request R2 superseded before it resolved
\* resolves with status "ignore", and its resolution changes neither
\* availableRoomOptions nor formData.room.
C1_SupersededResolvesIgnore ==
    [][AbortedCallReturns =>
           /\ resolved'.status = "ignore"
           /\ availableRoomOptions' = availableRoomOptions
           /\ formData'.room = formData.room]_vars

\* C2: in every reachable state at most one availability request is outstanding
\* and not aborted, namely the one whose controller abortControllerRef holds:
\* every other outstanding request has been aborted.
C2_OneLiveRequest ==
    /\ \A i \in DOMAIN reqs : ~reqs[i].aborted => i = abortControllerRef
    /\ Cardinality({i \in DOMAIN reqs : ~reqs[i].aborted}) <= 1

\* C2 witness: setAvailableRooms has just issued a request while an earlier one,
\* aborted, is still outstanding.
C2_Witness ==
    /\ "getAvailableRooms" \in effects
    /\ \E i, j \in DOMAIN reqs :
           /\ reqs[i].aborted
           /\ ~reqs[j].aborted
           /\ j = abortControllerRef

\* C3: the resolution of an aborted availability request is seen as "ignore", is
\* not reported through renderError, and leaves roomLoading, formData and
\* availableRoomOptions unchanged.
C3_AbortedResolutionUpdatesNothing ==
    [][AbortedCallReturns =>
           /\ resolved'.status = "ignore"
           /\ "renderError:availability" \notin effects'
           /\ roomLoading' = roomLoading
           /\ formData' = formData
           /\ availableRoomOptions' = availableRoomOptions]_vars

\* C4: onBookClick invoked while formData.room is unset calls no createEvent and
\* changes no view state; in particular bookClickLoading stays as it was.
C4_NoRoomClickIsNoOp ==
    [][("onBookClick" \in effects' /\ formData.room = NoRoom) =>
           /\ "createEvent" \notin effects'
           /\ UNCHANGED <<view, loading, initialPageLoad, roomLoading, bookClickLoading,
                          formData, availableRoomOptions, abortControllerRef, reqs, bookPc>>]_vars

\* A step that calls api.getAvailableRooms.
IssuedStep == "getAvailableRooms" \in effects'

\* A step that changes the start time, the duration or the seat count.
InputsChanged ==
    <<formData'.startTime, formData'.duration, formData'.seats>>
        # <<formData.startTime, formData.duration, formData.seats>>

\* The steps in which api.createEvent resolves: with a failure (the view stays),
\* with success (the parent moves away).
BookingFailedStep == bookPc = "creating" /\ bookPc' = "idle" /\ view' = "mounted"
BookingSucceededStep == bookPc = "creating" /\ bookPc' = "idle" /\ view' = "left"

\* The request a step has just issued is the last one, it is fresh, and every
\* other outstanding request has been aborted.
NewRequestIsOnlyLive ==
    /\ reqs' # <<>>
    /\ abortControllerRef' = Len(reqs')
    /\ reqs'[Len(reqs')].phase = "xhr"
    /\ ~reqs'[Len(reqs')].retry
    /\ \A i \in DOMAIN reqs' : ~reqs'[i].aborted <=> i = Len(reqs')

\* C16 as claimed: an availability request is issued exactly in the steps that,
\* with the initial load completed and a non-empty start time, change the start
\* time, the duration or the seat count; none before the load completes or while
\* startTime is empty, none for a change of title or room.
C16_IssuedExactlyOnChange ==
    [][/\ IssuedStep <=> (initialPageLoad' /\ formData'.startTime # <<>> /\ InputsChanged)
       /\ IssuedStep => NewRequestIsOnlyLive
       /\ (~initialPageLoad' \/ formData'.startTime = <<>>) => reqs' = <<>>]_vars

\* C16 amended: an availability request is issued exactly in the steps that, with
\* the initial load completed and a non-empty start time, change the start time,
\* the duration or the seat count (the load itself, an input change, or a result
\* applied over newer inputs), and in the step in which createEvent fails; each
\* such step issues one request after aborting the stored one; none is issued
\* before the load completes, while startTime is empty, or for a change of title
\* or room.
C16_IssuedOnChangeOrFailedBooking ==
    [][/\ IssuedStep <=> \/ initialPageLoad' /\ formData'.startTime # <<>> /\ InputsChanged
                         \/ BookingFailedStep
       /\ IssuedStep => NewRequestIsOnlyLive
       /\ (~initialPageLoad' \/ formData'.startTime = <<>>) => reqs' = <<>>
       /\ (formData'.title # formData.title /\ ~InputsChanged) => ~IssuedStep
       /\ (formData'.room # formData.room /\ ~InputsChanged /\ ~BookingFailedStep) => ~IssuedStep]_vars

\* C16 witness: a change of the seat count has just issued a request, after
\* aborting the one that was in flight.
C16_Witness ==
    /\ effects = {"getAvailableRooms"}
    /\ resolved = NoResolution
    /\ bookPc = "idle"
    /\ formData.seats # preferences.seats
    /\ formData.duration = preferences.duration
    /\ Len(reqs) = 2
    /\ reqs[1].aborted
    /\ ~reqs[2].aborted

\* A step in which a successful availability answer is applied.
AppliedStep == resolved'.kind = "availability" /\ resolved'.status = "success"

\* C17: when a successful availability answer is applied, the room options become
\* the returned rooms in the returned order and formData.room the first of them;
\* with an empty list the options are empty, formData.room is unset and the Book
\* button is disabled.
C17_SuccessSelectsFirstRoom ==
    [][AppliedStep =>
           /\ availableRoomOptions' = resolved'.data
           /\ Len(resolved'.data) > 0 => formData'.room = resolved'.data[1]
           /\ Len(resolved'.data) = 0 =>
                  /\ availableRoomOptions' = <<>>
                  /\ formData'.room = NoRoom
                  /\ ~BookButtonEnabled']_vars

\* C17 witness: the answer <<room-b, room-a>> has been applied: both rooms are
\* offered in that order and room-b is selected.
C17_Witness ==
    /\ resolved.kind = "availability"
    /\ resolved.status = "success"
    /\ resolved.data = <<"room-b", "room-a">>
    /\ availableRoomOptions = <<"room-b", "room-a">>
    /\ formData.room = "room-b"

\* C18: when createEvent resolves with a failure, bookClickLoading becomes false,
\* one new availability request is issued, onRoomBooked is not called and the
\* options are not cleared; the booking error is rendered in the step in which
\* that request resolves, and in no other.
C18_FailedBookingRefreshes ==
    [][/\ BookingFailedStep =>
              /\ ~bookClickLoading'
              /\ effects' = {"getAvailableRooms"}
              /\ Len(reqs') = Len(reqs) + 1
              /\ reqs'[Len(reqs')].cont = "renderError"
              /\ ~reqs'[Len(reqs')].aborted
              /\ availableRoomOptions' = availableRoomOptions
       /\ "renderError:booking" \in effects' <=>
              (resolved'.kind = "availability" /\ resolved'.cont = "renderError")]_vars

\* C18 witness: the refresh issued by a failed booking has resolved with rooms,
\* and the booking error has been rendered.
C18_Witness ==
    /\ "renderError:booking" \in effects
    /\ resolved.cont = "renderError"
    /\ resolved.status = "success"
    /\ ~bookClickLoading

\* C19: when createEvent resolves with success no room remains selected in the
\* form, the room list is emptied, onRoomBooked is called and bookClickLoading is
\* false.
C19_SuccessClearsRoomSelection ==
    [][BookingSucceededStep =>
           /\ formData'.room = NoRoom
           /\ availableRoomOptions' = <<>>
           /\ "onRoomBooked" \in effects'
           /\ ~bookClickLoading']_vars

\* The initial load is over and initializeDropdowns returned at its error test.
MountFailed == ~loading /\ timeOptions = <<>>

\* C20: the view always eventually leaves the loading state, with initialPageLoad
\* true; after a load whose getMaxSeatCount failed there are no time options, the
\* form keeps its initial start time, duration and seats, and no availability
\* request is ever issued.
C20_LeavesLoading ==
    /\ loading ~> (~loading /\ initialPageLoad)
    /\ [](MountFailed =>
              /\ initialPageLoad
              /\ formData.startTime = <<>>
              /\ formData.duration = InitialFormData.duration
              /\ formData.seats = InitialFormData.seats
              /\ reqs = <<>>
              /\ abortControllerRef = 0
              /\ ~roomLoading
              /\ "getAvailableRooms" \notin effects)

\* C20 witness: getMaxSeatCount failed, the view has left the loading state and
\* the user has since typed a title.
C20_Witness ==
    /\ MountFailed
    /\ initialPageLoad
    /\ formData.title = "standup"
    /\ formData.startTime = <<>>

\* ---- Api client: the chain of logout requests ----

\* How many times the interceptors (of the method's request and of the logout
\* requests below it) did e.
CountEvents(e) == Cardinality({i \in 1..Len(events) : events[i].e = e})

\* C21: handling a 401 whose refresh fails makes exactly one refresh attempt and
\* sends exactly one logout request before the original error is rejected, even
\* when that logout request is itself answered 401 and the refresh keeps failing:
\* no logout request causes a further refresh or a further logout request.
C21_OneLogoutOneRefresh ==
    RefreshFailedPath =>
        /\ CountEvents("refresh") <= 1
        /\ CountEvents("logout") <= 1
        /\ Len(stack) <= 2
        /\ \A k \in 2..Len(stack) : stack[k].nRefresh = 0
        /\ (apc = "done" /\ stage = "main") =>
               (CountEvents("refresh") = 1 /\ CountEvents("logout") = 1)

\* ---- BookRoomView: the selected room and the inputs ----

\* The Book button is enabled as far as the rooms are concerned (line 616).
BookingPossible == view = "mounted" /\ ~roomLoading /\ formData.room # NoRoom

\* C22: whenever booking is possible (roomLoading is false and formData.room is
\* set), formData.room was returned by a successful availability query made for
\* the current startTime, duration and seats.
C22_BookableRoomIsCurrent ==
    BookingPossible => roomQuery = QueryOf(formData)

\* An availability request is in flight and its controller has not been aborted.
LiveRequestInFlight == \E i \in DOMAIN reqs : ~reqs[i].aborted /\ ~Settled(reqs[i])

\* C23: roomLoading is true in every state in which an availability request is
\* in flight and not aborted, also after an earlier superseded request resolved
\* as "ignore"; it becomes false only in a step in which the most recently
\* issued request (the one whose controller is stored) resolves.
C23_LoadingWhileInFlight ==
    /\ [](LiveRequestInFlight => roomLoading)
    /\ [][(roomLoading /\ ~roomLoading') =>
              (resolved'.kind = "availability" /\ ~resolved'.aborted)]_vars

\* C24: a step that applies a successful availability answer changes, in the
\* form, formData.room only: startTime, duration, seats and title keep the value
\* they have when the answer is applied, edits made while the request was in
\* flight included.
C24_ApplyChangesOnlyRoom ==
    [][AppliedStep => formData' = [formData EXCEPT !.room = formData'.room]]_vars

\* ---- the start timestamp the view sends ----

\* The local calendar date as an ISO date: "2024-01-15".
LocalDateString == <<"2", "0", "2", "4", "-", "0", "1", "-">> \o TwoDigits(LocalDay)

\* C25: for every current instant and runtime offset, the start timestamp that
\* setAvailableRooms and onBookClick send is the user's current local calendar
\* date, "T", the selected local wall-clock time as HH:MM:00 and the local
\* offset; its date part is never a day off the local date.
C25_StartCarriesLocalDate ==
    (targ.fn = "formattedStartTime" /\ tres # NoResult) =>
        /\ tres.kind = "string"
        /\ SubSeq(tres.str, 1, 10) = LocalDateString
        /\ tres.str = LocalDateString \o <<"T">>
                       \o TwoDigits(ParseClock(targ.timeString) \div 60) \o <<":">>
                       \o TwoDigits(ParseClock(targ.timeString) % 60)
                       \o <<":", "0", "0">> \o getTimezoneOffset(tzOffset)

====
